---------------------------- MODULE Spec2Model ----------------------------
(***************************************************************************)
(* Model of src/src/lib.rs: conversion of coordinates between WGS-84,      *)
(* GCJ-02 and BD-09.                                                       *)
(*                                                                         *)
(* Numbers.  An f64 of the program is modelled as a record: a finite value *)
(* [k |-> "fin", v |-> n] stands for n * 1e-7 (degrees are held in units   *)
(* of 1e-7 degree, so EPS = 1e-7 is one unit), and NaN and the two         *)
(* infinities are values of their own, combined by the IEEE-754 rules.     *)
(* The arithmetic of the conversions is fixed point, every intermediate    *)
(* value below 2^31: the offsets of wgs_encrypt are held in units of 1e-6, *)
(* sines and angles in units of 1e-7.  wgs_to_gcj agrees with the f64      *)
(* code to within one unit (1e-7 degree); gcj_to_bd and bd_to_gcj, whose   *)
(* polar form multiplies the angle's error by the radius, to within about  *)
(* 1e-4 degree.                                                            *)
(***************************************************************************)
EXTENDS Integers, Sequences, FiniteSets, TLC

----------------------------------------------------------------------------
(* Evaluation order *)

\* F(v), with v evaluated once, before F is applied: the `let` of the source
Bind(v, F(_)) == CHOOSE r \in {F(p) : p \in {v}} : TRUE

Bind2(v, w, F(_, _)) == CHOOSE r \in {F(p, q) : p \in {v}, q \in {w}} : TRUE

Bind3(u, v, w, F(_, _, _)) ==
    CHOOSE r \in {F(o, p, q) : o \in {u}, p \in {v}, q \in {w}} : TRUE

----------------------------------------------------------------------------
(* Fixed-point arithmetic *)

\* the scale of degrees, sines and angles: 1e-7
S == 10^7

\* the scale of the offsets of wgs_encrypt: 1e-6
M == 10^6

Abs(a) == Bind(a, LAMBDA v : IF v < 0 THEN -v ELSE v)

Sgn(a) == IF a < 0 THEN -1 ELSE 1

\* a / d rounded to the nearest integer, d > 0
RoundDiv(a, d) ==
    Bind(a, LAMBDA v : IF v < 0 THEN -((d \div 2 - v) \div d) ELSE (v + d \div 2) \div d)

\* <<quotient, remainder>> of ra * b by d, for 0 <= ra < d and b >= 0, one
\* base-B digit of b at a time so that no intermediate value reaches 2^31
RECURSIVE MulDivAcc(_, _, _, _)
MulDivAcc(ra, b, d, B) ==
    IF b = 0 THEN <<0, 0>>
    ELSE Bind(MulDivAcc(ra, b \div B, d, B), LAMBDA p :
         Bind(p[2] * B + ra * (b % B), LAMBDA t :
         <<p[1] * B + t \div d, t % d>>))

\* a * b / d rounded to the nearest integer, 0 < d <= 10^8
MulDiv(a, b, d) ==
    Bind3(a, b, d, LAMBDA a1, b1, d1 :
    Bind2(Abs(a1), Abs(b1), LAMBDA x, y :
    Bind(IF x < y THEN MulDivAcc(y % d1, x, d1, IF d1 <= 10^7 THEN 100 ELSE 10)
                  ELSE MulDivAcc(x % d1, y, d1, IF d1 <= 10^7 THEN 100 ELSE 10), LAMBDA p :
    Sgn(a1) * Sgn(b1)
        * ((IF x < y THEN (y \div d1) * x ELSE (x \div d1) * y)
           + p[1] + (IF 2 * p[2] >= d1 THEN 1 ELSE 0)))))

\* a * b for two values of scale S
FMul(a, b) == MulDiv(a, b, S)

\* std::f64::consts::PI at scale S
PI_S == 31415927

\* sin(t) for 0 <= t <= PI/2 (radians at scale S): the Taylor series to t^13
SinRad(t) ==
    Bind(t, LAMBDA t1 :
    Bind(FMul(t1, t1), LAMBDA z :
    LET h6 == S - RoundDiv(z, 156)
        h5 == S - RoundDiv(FMul(z, h6), 110)
        h4 == S - RoundDiv(FMul(z, h5), 72)
        h3 == S - RoundDiv(FMul(z, h4), 42)
        h2 == S - RoundDiv(FMul(z, h3), 20)
        h1 == S - RoundDiv(FMul(z, h2), 6)
    IN  FMul(t1, h1)))

\* (PI * t).sin() for any t at scale S: t is reduced to a quarter turn first
SinPi(t) ==
    Bind(t % (2 * S), LAMBDA u :
    Bind(IF u >= S THEN u - S ELSE u, LAMBDA v :
    (IF u >= S THEN -1 ELSE 1) * SinRad(FMul(IF 2 * v > S THEN S - v ELSE v, PI_S))))

\* (PI * t).cos()
CosPi(t) == SinPi(t + S \div 2)

\* Newton's iteration for the square root, from above
RECURSIVE SqrtIter(_, _, _)
SqrtIter(m, s, fuel) ==
    Bind((s + MulDiv(m, S, s)) \div 2, LAMBDA n :
    IF fuel = 0 \/ Abs(n - s) <= 1 THEN n ELSE SqrtIter(m, n, fuel - 1))

\* m.sqrt() for 0 <= m <= 36 at scale S
FSqrt(m) ==
    Bind(m, LAMBDA v : IF v <= 0 THEN 0 ELSE SqrtIter(v, IF v <= S THEN S ELSE 6 * S, 40))

\* atan(t) for 0 <= t <= 1 at scale S: the angle is halved twice, then the
\* Taylor series to u^9
HalfAngle(t) == Bind(t, LAMBDA v : MulDiv(v, S, S + FSqrt(S + FMul(v, v))))

Atan01(t) ==
    Bind(HalfAngle(HalfAngle(t)), LAMBDA u :
    Bind(FMul(u, u), LAMBDA z :
    LET p4 == RoundDiv(S, 9)
        p3 == RoundDiv(S, 7) - FMul(z, p4)
        p2 == RoundDiv(S, 5) - FMul(z, p3)
        p1 == RoundDiv(S, 3) - FMul(z, p2)
        p0 == S - FMul(z, p1)
    IN  4 * FMul(u, p0)))

\* y.atan2(x) in radians at scale S, for y and x of one scale
Atan2(y, x) ==
    Bind2(y, x, LAMBDA y1, x1 :
    Bind2(Abs(y1), Abs(x1), LAMBDA a, b :
    IF a = 0 /\ b = 0 THEN 0
    ELSE Bind(IF a <= b THEN Atan01(MulDiv(a, S, b))
                        ELSE PI_S \div 2 - Atan01(MulDiv(b, S, a)), LAMBDA base :
         Bind(IF x1 >= 0 THEN base ELSE PI_S - base, LAMBDA q :
         IF y1 < 0 THEN -q ELSE q))))

\* t.sin() and t.cos() for t in radians at scale S
Sin(t) == SinPi(MulDiv(t, S, PI_S))

Cos(t) == CosPi(MulDiv(t, S, PI_S))

\* (a * a + b * b).sqrt() by Newton's iteration from above, at the scale of a and b
RECURSIVE HypotIter(_, _, _, _)
HypotIter(a, b, s, fuel) ==
    Bind((s + MulDiv(a, a, s) + MulDiv(b, b, s)) \div 2, LAMBDA n :
    IF fuel = 0 \/ Abs(n - s) <= 1 THEN n ELSE HypotIter(a, b, n, fuel - 1))

Hypot(a, b) ==
    Bind2(a, b, LAMBDA a1, b1 :
    IF a1 = 0 /\ b1 = 0 THEN 0 ELSE HypotIter(a1, b1, Abs(a1) + Abs(b1), 40))

----------------------------------------------------------------------------
(* f64 values.  The operators below are applied to values, not to           *)
(* expressions: their callers bind what they pass *)

Fin(n) == [k |-> "fin", v |-> n]

NaN == [k |-> "nan", v |-> 0]

PosInf == [k |-> "inf", v |-> 1]

NegInf == [k |-> "inf", v |-> -1]

\* a local that the call never assigned
Unset == [k |-> "unset", v |-> 0]

IsFin(a) == a.k = "fin"

\* a + b
FAdd(a, b) ==
    IF a.k = "nan" \/ b.k = "nan" THEN NaN
    ELSE IF a.k = "inf" THEN (IF b.k = "inf" /\ b.v # a.v THEN NaN ELSE a)
    ELSE IF b.k = "inf" THEN b
    ELSE Fin(a.v + b.v)

\* -a
FNeg(a) == IF a.k = "nan" THEN NaN ELSE [k |-> a.k, v |-> -a.v]

\* a - b
FSub(a, b) == Bind2(a, b, LAMBDA a1, b1 : Bind(FNeg(b1), LAMBDA nb : FAdd(a1, nb)))

\* a.abs()
FAbs(a) == IF a.k = "nan" THEN NaN ELSE [k |-> a.k, v |-> IF a.v < 0 THEN -a.v ELSE a.v]

\* a < b: false when either is NaN
FLt(a, b) ==
    Bind2(a, b, LAMBDA a1, b1 :
    /\ a1.k # "nan"
    /\ b1.k # "nan"
    /\ IF a1.k = "inf" THEN a1.v < 0 /\ b1 # a1
       ELSE IF b1.k = "inf" THEN b1.v > 0
       ELSE a1.v < b1.v)

----------------------------------------------------------------------------
(* The conversions *)

\* PI_X = PI * 3000 / 180: (PI_X * v) as a multiple of PI.  The sine and the
\* cosine of it have period 0.12 in v, which is removed first
PiX(v) == MulDiv(v % 1200000, 3000, 180)

\* 0.2 * y.abs().sqrt(), the term of x_t, at scale M
x_sqrt(x, y) == RoundDiv(2 * RoundDiv(FSqrt(Abs(y)), 10), 10)

\* a variant of y_sqrt: the root of |x|
y_sqrt_of_x(x, y) == RoundDiv(RoundDiv(FSqrt(Abs(x)), 10), 10)

\* 0.1 * y.abs().sqrt(), the term of y_t, at scale M
y_sqrt(x, y) == RoundDiv(RoundDiv(FSqrt(Abs(y)), 10), 10)

\* wgs_encrypt for finite x and y (scale S): every local of the function, the
\* offsets at scale M
wgs_encrypt(x0, y0) ==
    Bind2(x0, y0, LAMBDA x, y :
    Bind(20 * RoundDiv(SinPi(6 * y), 10) + 20 * RoundDiv(SinPi(2 * y), 10), LAMBDA r :
    Bind(20 * RoundDiv(SinPi(x), 10) + 40 * RoundDiv(SinPi(RoundDiv(x, 3)), 10), LAMBDA x_p :
    Bind(160 * RoundDiv(SinPi(RoundDiv(x, 12)), 10)
         + 320 * RoundDiv(SinPi(RoundDiv(x, 30)), 10), LAMBDA x_q :
    Bind(-100 * M
         + RoundDiv(2 * y, 10)
         + RoundDiv(3 * x, 10)
         + RoundDiv(MulDiv(x, x, 10 * S), 5)
         + RoundDiv(MulDiv(x, y, 10 * S), 10)
         + x_sqrt(x, y)
         + RoundDiv(2 * (r + x_p + x_q), 3), LAMBDA x_t :
    Bind(20 * RoundDiv(SinPi(y), 10) + 40 * RoundDiv(SinPi(RoundDiv(y, 3)), 10), LAMBDA y_p :
    Bind(150 * RoundDiv(SinPi(RoundDiv(y, 12)), 10)
         + 300 * RoundDiv(SinPi(RoundDiv(y, 30)), 10), LAMBDA y_q :
    Bind(300 * M
         + RoundDiv(y, 10)
         + RoundDiv(2 * x, 10)
         + RoundDiv(MulDiv(y, y, 10 * S), 10)
         + RoundDiv(MulDiv(x, y, 10 * S), 10)
         + y_sqrt(x, y)
         + RoundDiv(2 * (r + y_p + y_q), 3), LAMBDA y_t :
    [x |-> x, y |-> y, r |-> r, x_p |-> x_p, x_q |-> x_q, x_t |-> x_t,
     y_p |-> y_p, y_q |-> y_q, y_t |-> y_t]))))))))

\* the bounds of is_outside_china, in units of 1e-7 degree
LAT_MIN == 8293000

LAT_MAX == 558271000

LON_MIN == 720040000

LON_MAX == 1378347000

\* a variant of is_outside_china: a point on a bound is outside
is_outside_china_on_bound(lat, lon) ==
    \/ FLt(lat, Fin(LAT_MIN + 1))
    \/ FLt(Fin(LAT_MAX - 1), lat)
    \/ FLt(lon, Fin(LON_MIN + 1))
    \/ FLt(Fin(LON_MAX - 1), lon)

\* a variant of is_outside_china: outside only beyond a bound of each axis
is_outside_china_both_axes(lat, lon) ==
    /\ FLt(lat, Fin(LAT_MIN)) \/ FLt(Fin(LAT_MAX), lat)
    /\ FLt(lon, Fin(LON_MIN)) \/ FLt(Fin(LON_MAX), lon)

is_outside_china(lat, lon) ==
    \/ FLt(lat, Fin(LAT_MIN))
    \/ FLt(Fin(LAT_MAX), lat)
    \/ FLt(lon, Fin(LON_MIN))
    \/ FLt(Fin(LON_MAX), lon)

\* Krasovsky 1940: the semi-major axis in metres
A == 6378245

\* EE = 0.00669342162296594323 in units of 1e-8
EE == 669342

\* lat_rad = PI / 180.0 * lat, as a multiple of PI
LatRad(lat) == RoundDiv(lat, 180)

\* magic = 1.0 - EE * lat_rad.sin().powi(2)
Magic(lat_rad) == Bind(SinPi(lat_rad), LAMBDA sn : S - MulDiv(EE, FMul(sn, sn), 10 * S))

\* PI * A * (1.0 - EE) / (magic * magic.sqrt()), as an integer
LatArc(magic) ==
    Bind(magic, LAMBDA m :
    MulDiv(MulDiv(FMul(PI_S, A), S - RoundDiv(EE, 10), S), S, FMul(m, FSqrt(m))))

\* PI * A / magic.sqrt() * lat_rad.cos(), as an integer
LonArc(magic, lat_rad) == FMul(MulDiv(FMul(PI_S, A), S, FSqrt(magic)), CosPi(lat_rad))

\* a variant of EncryptArgs: the longitude first
EncryptArgs_lon_first(lat, lon) == <<lon - 105 * S, lat - 35 * S>>

\* the arguments wgs_to_gcj passes to wgs_encrypt
EncryptArgs(lat, lon) == <<lat - 35 * S, lon - 105 * S>>

\* the locals of a wgs_to_gcj that returned early: none was assigned
EarlyReturn(lat, lon) ==
    [lat |-> lat, lon |-> lon, outside |-> TRUE, lat_rad |-> Unset, magic |-> Unset,
     enc |-> Unset, lat_t |-> Unset, lon_t |-> Unset, lat_d |-> Unset, lon_d |-> Unset,
     ret |-> <<lat, lon>>]

\* the locals of a wgs_to_gcj whose argument is NaN and passed the range check
\* (an infinity never does): every operation on NaN gives NaN
NaNLocals(lat, lon) ==
    [lat |-> lat, lon |-> lon, outside |-> FALSE, lat_rad |-> NaN, magic |-> NaN,
     enc |-> NaN, lat_t |-> NaN, lon_t |-> NaN, lat_d |-> NaN, lon_d |-> NaN,
     ret |-> <<NaN, NaN>>]

\* wgs_to_gcj with its locals, the degrees at scale S and the offsets at scale M
wgs_to_gcj_locals(lat0, lon0) ==
    Bind2(lat0, lon0, LAMBDA lat, lon :
    IF is_outside_china(lat, lon) THEN EarlyReturn(lat, lon)
    ELSE IF ~IsFin(lat) \/ ~IsFin(lon) THEN NaNLocals(lat, lon)
    ELSE
    Bind(LatRad(lat.v), LAMBDA lat_rad :
    Bind(Magic(lat_rad), LAMBDA magic :
    Bind(EncryptArgs(lat.v, lon.v), LAMBDA a :
    Bind(wgs_encrypt(a[1], a[2]), LAMBDA enc :
    Bind2(enc.x_t, enc.y_t, LAMBDA lat_t, lon_t :
    Bind2(MulDiv(lat_t, 1800, LatArc(magic)),
          MulDiv(lon_t, 1800, LonArc(magic, lat_rad)), LAMBDA lat_d, lon_d :
    [lat |-> lat, lon |-> lon, outside |-> FALSE,
     lat_rad |-> Fin(lat_rad), magic |-> Fin(magic), enc |-> enc,
     lat_t |-> Fin(lat_t), lon_t |-> Fin(lon_t),
     lat_d |-> Fin(lat_d), lon_d |-> Fin(lon_d),
     ret |-> <<Fin(lat.v + lat_d), Fin(lon.v + lon_d)>>])))))))

wgs_to_gcj(lat, lon) == wgs_to_gcj_locals(lat, lon).ret

\* gcj_to_bd: z and the results in units of 1e-5 degree, theta at scale S.  The
\* sine of PI_X * lat and the cosine of PI_X * lon are NaN for an infinity, so
\* any argument that is not finite makes both results NaN
gcj_to_bd(lat0, lon0) ==
    Bind2(lat0, lon0, LAMBDA lat, lon :
    IF ~IsFin(lat) \/ ~IsFin(lon) THEN <<NaN, NaN>>
    ELSE
    Bind2(RoundDiv(lat.v, 100), RoundDiv(lon.v, 100), LAMBDA la, lo :
    Bind(Hypot(lo, la) + RoundDiv(2 * SinPi(PiX(lat.v)), S), LAMBDA z :
    Bind(Atan2(la, lo) + RoundDiv(30 * CosPi(PiX(lon.v)), S), LAMBDA theta :
    <<Fin(100 * (FMul(z, Sin(theta)) + 600)), Fin(100 * (FMul(z, Cos(theta)) + 650))>>))))

\* bd_to_gcj, in the units of gcj_to_bd
bd_to_gcj(lat0, lon0) ==
    Bind2(lat0, lon0, LAMBDA lat, lon :
    IF ~IsFin(lat) \/ ~IsFin(lon) THEN <<NaN, NaN>>
    ELSE
    Bind2(lat.v - 60000, lon.v - 65000, LAMBDA lat1, lon1 :
    Bind2(RoundDiv(lat1, 100), RoundDiv(lon1, 100), LAMBDA la, lo :
    Bind(Hypot(lo, la) - RoundDiv(2 * SinPi(PiX(lat1)), S), LAMBDA z :
    Bind(Atan2(la, lo) - RoundDiv(30 * CosPi(PiX(lon1)), S), LAMBDA theta :
    <<Fin(100 * FMul(z, Sin(theta))), Fin(100 * FMul(z, Cos(theta)))>>)))))

\* the loop of gcj_to_wgs runs while the counter is below this
MAX_ROUND == 10

\* EPS = 1e-7: one unit
EPS == 1

\* a variant of LoopContinues: one iteration more
LoopContinues_inclusive(done) == done < MAX_ROUND + 1

\* `for _ in 0..MAX_ROUND`: another iteration is started after `done` of them
LoopContinues(done) == done < MAX_ROUND

\* delta = gcj - cur, componentwise
Residual(g, c) == <<FSub(g[1], c[1]), FSub(g[2], c[2])>>

\* a variant of Converged: one residual below EPS is enough
Converged_either(delta) == FLt(FAbs(delta[1]), Fin(EPS)) \/ FLt(FAbs(delta[2]), Fin(EPS))

\* the test that breaks out of the loop
Converged(delta) == FLt(FAbs(delta[1]), Fin(EPS)) /\ FLt(FAbs(delta[2]), Fin(EPS))

\* wgs.0 += delta.0; wgs.1 += delta.1
Advance(w, delta) == <<FAdd(w[1], delta[1]), FAdd(w[2], delta[2])>>

\* the loop of gcj_to_wgs from its iteration number `done`, as a function
RECURSIVE gcj_to_wgs_from(_, _, _)
gcj_to_wgs_from(g, w, done) ==
    IF ~LoopContinues(done) THEN w
    ELSE Bind(wgs_to_gcj(w[1], w[2]), LAMBDA cur :
         Bind(Residual(g, cur), LAMBDA delta :
         IF Converged(delta) THEN w
         ELSE Bind(Advance(w, delta), LAMBDA w1 : gcj_to_wgs_from(g, w1, done + 1))))

gcj_to_wgs(lat, lon) == Bind(<<lat, lon>>, LAMBDA g : gcj_to_wgs_from(g, g, 0))

bd_to_wgs(lat, lon) == Bind(bd_to_gcj(lat, lon), LAMBDA g : gcj_to_wgs(g[1], g[2]))

\* a variant of wgs_to_bd: without the step through GCJ-02
wgs_to_bd_direct(lat, lon) == gcj_to_bd(lat, lon)

wgs_to_bd(lat, lon) == Bind(wgs_to_gcj(lat, lon), LAMBDA g : gcj_to_bd(g[1], g[2]))

\* enum GeodeticSystem
GeodeticSystem == {"Wgs84", "Gcj02", "Bd09"}

\* a variant of convert_to_arm: without the arm (Bd09, Gcj02)
convert_to_arm_incomplete(self, target) ==
    IF self = target THEN "identity"
    ELSE CASE self = "Wgs84" /\ target = "Gcj02" -> "wgs_to_gcj"
           [] self = "Wgs84" /\ target = "Bd09"  -> "wgs_to_bd"
           [] self = "Gcj02" /\ target = "Wgs84" -> "gcj_to_wgs"
           [] self = "Gcj02" /\ target = "Bd09"  -> "gcj_to_bd"
           [] self = "Bd09"  /\ target = "Wgs84" -> "bd_to_wgs"
           [] OTHER -> "unreachable"

\* the arm that the match of convert_to selects
convert_to_arm(self, target) ==
    IF self = target THEN "identity"
    ELSE CASE self = "Wgs84" /\ target = "Gcj02" -> "wgs_to_gcj"
           [] self = "Wgs84" /\ target = "Bd09"  -> "wgs_to_bd"
           [] self = "Gcj02" /\ target = "Wgs84" -> "gcj_to_wgs"
           [] self = "Gcj02" /\ target = "Bd09"  -> "gcj_to_bd"
           [] self = "Bd09"  /\ target = "Wgs84" -> "bd_to_wgs"
           [] self = "Bd09"  /\ target = "Gcj02" -> "bd_to_gcj"
           [] OTHER -> "unreachable"

----------------------------------------------------------------------------
(* The state machine: calls of convert_to, the result of one call being the *)
(* argument of the next *)

\* how many units each side of a bound of the region the arguments reach
EdgeSpan == 1

\* how many calls a behaviour makes
MaxCalls == 2

Deg(n) == Fin(n * S)

\* the arguments of the first call: around each of the four bounds of the
\* region, inside it, far outside it, and values that are not finite
Coords ==
    {<<Fin(b + d), Deg(100)>> : b \in {LAT_MIN, LAT_MAX}, d \in -EdgeSpan..EdgeSpan}
    \cup {<<Deg(30), Fin(b + d)>> : b \in {LON_MIN, LON_MAX}, d \in -EdgeSpan..EdgeSpan}
    \cup {<<Deg(39), Deg(116)>>, <<Deg(60), Deg(100)>>}
    \cup {<<NaN, Deg(116)>>, <<PosInf, Deg(116)>>, <<Deg(39), NegInf>>}

VARIABLES
    pc,      \* "call": convert_to entered; "arm": its arm selected;
             \* "loop": in the loop of gcj_to_wgs; "done": convert_to returned
    self,    \* the source system of the call
    target,  \* the target system of the call
    arg,     \* <<lat, lon>> of the call
    arm,     \* the arm of the match
    gcj,     \* gcj_to_wgs: the coordinate to invert
    wgs,     \* gcj_to_wgs: the estimate
    round,   \* gcj_to_wgs: the iterations started
    broke,   \* gcj_to_wgs: the loop was left by the break
    fwd,     \* the locals of the call's latest wgs_to_gcj
    applied, \* how many times the call has applied wgs_to_gcj
    ret,     \* the value convert_to returned
    hist     \* the calls before this one

vars == <<pc, self, target, arg, arm, gcj, wgs, round, broke, fwd, applied, ret, hist>>

None == <<Unset, Unset>>

NoLocals ==
    [lat |-> Unset, lon |-> Unset, outside |-> FALSE, lat_rad |-> Unset, magic |-> Unset,
     enc |-> Unset, lat_t |-> Unset, lon_t |-> Unset, lat_d |-> Unset, lon_d |-> Unset,
     ret |-> None]

Enter(s, t, p) ==
    /\ pc = "call"
    /\ self = s
    /\ target = t
    /\ arg = p
    /\ arm = "none"
    /\ gcj = None
    /\ wgs = None
    /\ round = 0
    /\ broke = FALSE
    /\ fwd = NoLocals
    /\ applied = 0
    /\ ret = None

Init ==
    /\ hist = <<>>
    /\ \E s \in GeodeticSystem, t \in GeodeticSystem, p \in Coords : Enter(s, t, p)

\* match (self, target)
Match ==
    /\ pc = "call"
    /\ arm' = convert_to_arm(self, target)
    /\ pc' = "arm"
    /\ UNCHANGED <<self, target, arg, gcj, wgs, round, broke, fwd, applied, ret, hist>>

\* a variant of ArmIdentity: the arm converts
ArmIdentity_converting ==
    /\ pc = "arm"
    /\ arm = "identity"
    /\ ret' = wgs_to_gcj(arg[1], arg[2])
    /\ pc' = "done"
    /\ UNCHANGED <<self, target, arg, arm, gcj, wgs, round, broke, fwd, applied, hist>>

\* (x, y) if x == y => (lat, lon)
ArmIdentity ==
    /\ pc = "arm"
    /\ arm = "identity"
    /\ ret' = arg
    /\ pc' = "done"
    /\ UNCHANGED <<self, target, arg, arm, gcj, wgs, round, broke, fwd, applied, hist>>

\* (Wgs84, Gcj02) => wgs_to_gcj(lat, lon)
ArmWgsToGcj ==
    /\ pc = "arm"
    /\ arm = "wgs_to_gcj"
    /\ fwd' = wgs_to_gcj_locals(arg[1], arg[2])
    /\ applied' = applied + 1
    /\ ret' = fwd'.ret
    /\ pc' = "done"
    /\ UNCHANGED <<self, target, arg, arm, gcj, wgs, round, broke, hist>>

\* (Wgs84, Bd09) => wgs_to_bd(lat, lon)
ArmWgsToBd ==
    /\ pc = "arm"
    /\ arm = "wgs_to_bd"
    /\ fwd' = wgs_to_gcj_locals(arg[1], arg[2])
    /\ applied' = applied + 1
    /\ ret' = wgs_to_bd(arg[1], arg[2])
    /\ pc' = "done"
    /\ UNCHANGED <<self, target, arg, arm, gcj, wgs, round, broke, hist>>

\* (Gcj02, Bd09) => gcj_to_bd(lat, lon)
ArmGcjToBd ==
    /\ pc = "arm"
    /\ arm = "gcj_to_bd"
    /\ ret' = gcj_to_bd(arg[1], arg[2])
    /\ pc' = "done"
    /\ UNCHANGED <<self, target, arg, arm, gcj, wgs, round, broke, fwd, applied, hist>>

\* (Bd09, Gcj02) => bd_to_gcj(lat, lon)
ArmBdToGcj ==
    /\ pc = "arm"
    /\ arm = "bd_to_gcj"
    /\ ret' = bd_to_gcj(arg[1], arg[2])
    /\ pc' = "done"
    /\ UNCHANGED <<self, target, arg, arm, gcj, wgs, round, broke, fwd, applied, hist>>

\* (Gcj02, Wgs84) => gcj_to_wgs(lat, lon): up to its loop
ArmGcjToWgs ==
    /\ pc = "arm"
    /\ arm = "gcj_to_wgs"
    /\ gcj' = arg
    /\ wgs' = arg
    /\ pc' = "loop"
    /\ UNCHANGED <<self, target, arg, arm, round, broke, fwd, applied, ret, hist>>

\* (Bd09, Wgs84) => bd_to_wgs(lat, lon): bd_to_gcj, then gcj_to_wgs up to its loop
ArmBdToWgs ==
    /\ pc = "arm"
    /\ arm = "bd_to_wgs"
    /\ gcj' = bd_to_gcj(arg[1], arg[2])
    /\ wgs' = gcj'
    /\ pc' = "loop"
    /\ UNCHANGED <<self, target, arg, arm, round, broke, fwd, applied, ret, hist>>

\* one iteration of the loop of gcj_to_wgs; the break returns wgs
Iterate ==
    /\ pc = "loop"
    /\ LoopContinues(round)
    /\ round' = round + 1
    /\ fwd' = wgs_to_gcj_locals(wgs[1], wgs[2])
    /\ applied' = applied + 1
    /\ LET delta == Residual(gcj, fwd'.ret)
       IN  IF Converged(delta)
           THEN /\ broke' = TRUE
                /\ wgs' = wgs
                /\ ret' = wgs
                /\ pc' = "done"
           ELSE /\ broke' = FALSE
                /\ wgs' = Advance(wgs, delta)
                /\ ret' = ret
                /\ pc' = "loop"
    /\ UNCHANGED <<self, target, arg, arm, gcj, hist>>

\* the loop has run MAX_ROUND times: gcj_to_wgs returns wgs
LoopExit ==
    /\ pc = "loop"
    /\ ~LoopContinues(round)
    /\ ret' = wgs
    /\ pc' = "done"
    /\ UNCHANGED <<self, target, arg, arm, gcj, wgs, round, broke, fwd, applied, hist>>

\* the caller converts the result on, from the system it is now in
NextCall ==
    /\ pc = "done"
    /\ Len(hist) + 1 < MaxCalls
    /\ hist' = Append(hist, [self |-> self, target |-> target, arg |-> arg, ret |-> ret])
    /\ \E t \in GeodeticSystem :
          /\ pc' = "call"
          /\ self' = target
          /\ target' = t
          /\ arg' = ret
          /\ arm' = "none"
          /\ gcj' = None
          /\ wgs' = None
          /\ round' = 0
          /\ broke' = FALSE
          /\ fwd' = NoLocals
          /\ applied' = 0
          /\ ret' = None

Next ==
    \/ Match
    \/ ArmIdentity
    \/ ArmWgsToGcj
    \/ ArmWgsToBd
    \/ ArmGcjToBd
    \/ ArmBdToGcj
    \/ ArmGcjToWgs
    \/ ArmBdToWgs
    \/ Iterate
    \/ LoopExit
    \/ NextCall

Spec == Init /\ [][Next]_vars

----------------------------------------------------------------------------
(* The properties *)

\* the coordinate is beyond a bound of the region
Outside(p) ==
    \/ FLt(p[1], Fin(LAT_MIN))
    \/ FLt(Fin(LAT_MAX), p[1])
    \/ FLt(p[2], Fin(LON_MIN))
    \/ FLt(Fin(LON_MAX), p[2])

Finite(p) == IsFin(p[1]) /\ IsFin(p[2])

\* the coordinate is in the closed box of the region
InBox(p) ==
    /\ Finite(p)
    /\ LAT_MIN <= p[1].v /\ p[1].v <= LAT_MAX
    /\ LON_MIN <= p[2].v /\ p[2].v <= LON_MAX

\* the coordinate is in the box and on one of its four bounds
OnBound(p) ==
    /\ InBox(p)
    /\ p[1].v \in {LAT_MIN, LAT_MAX} \/ p[2].v \in {LON_MIN, LON_MAX}

\* the call's latest wgs_to_gcj took the regional path on a finite coordinate
Computed == applied > 0 /\ ~fwd.outside /\ IsFin(fwd.lat) /\ IsFin(fwd.lon)

\* both magnitudes are below 1e-7
Below(delta) == FLt(FAbs(delta[1]), Fin(EPS)) /\ FLt(FAbs(delta[2]), Fin(EPS))

\* p and q differ by less than 1e-6 degree in both components
Within(p, q) ==
    /\ FLt(FAbs(FSub(p[1], q[1])), Fin(S \div M))
    /\ FLt(FAbs(FSub(p[2], q[2])), Fin(S \div M))

\* the name of a system in the names of the pairwise functions
Short(s) == CASE s = "Wgs84" -> "wgs" [] s = "Gcj02" -> "gcj" [] s = "Bd09" -> "bd"

\* C1: convert_to from a system to the same system selects the identity arm
\* and returns (lat, lon) exactly as given, whatever the values; it applies
\* no conversion function
C1_Identity ==
    (pc = "done" /\ self = target) =>
        /\ arm = "identity"
        /\ ret = arg
        /\ applied = 0
        /\ round = 0
        /\ gcj = None

\* C1: a same-system call on an in-region coordinate, which every conversion
\* would move, has returned
C1_Witness ==
    /\ pc = "done"
    /\ self = "Gcj02"
    /\ target = "Gcj02"
    /\ arg = <<Deg(39), Deg(116)>>
    /\ ret = arg

\* C2: wgs_to_gcj returns a coordinate beyond a bound of the region
\* unchanged; a coordinate of the closed box, its four bounds included, is
\* not passed through: it gets the offsets added
C2_Region ==
    (pc = "done" /\ arm = "wgs_to_gcj") =>
        /\ Outside(arg) => (fwd.outside /\ ret = arg)
        /\ InBox(arg) =>
              /\ ~fwd.outside
              /\ Finite(<<fwd.lat_d, fwd.lon_d>>)
              /\ ret = <<FAdd(arg[1], fwd.lat_d), FAdd(arg[2], fwd.lon_d)>>

\* C2: wgs_to_gcj has moved a coordinate that lies exactly on a bound
C2_Witness ==
    /\ pc = "done"
    /\ arm = "wgs_to_gcj"
    /\ OnBound(arg)
    /\ ret # arg

\* C3: gcj_to_wgs of the wgs_to_gcj of an in-region coordinate is within 1e-6
\* degree of that coordinate in both components, also close to the edge of
\* the box
C3_RoundTrip ==
    (/\ pc = "done"
     /\ self = "Gcj02"
     /\ target = "Wgs84"
     /\ hist # <<>>
     /\ hist[Len(hist)].self = "Wgs84"
     /\ hist[Len(hist)].target = "Gcj02"
     /\ InBox(hist[Len(hist)].arg))
    => Within(ret, hist[Len(hist)].arg)

\* C4: convert_to from Wgs84 to Bd09 returns gcj_to_bd of wgs_to_gcj, and
\* from Bd09 to Wgs84 gcj_to_wgs of bd_to_gcj
C4_Routes ==
    /\ (pc = "done" /\ self = "Wgs84" /\ target = "Bd09") =>
          LET g == wgs_to_gcj(arg[1], arg[2]) IN ret = gcj_to_bd(g[1], g[2])
    /\ (pc = "done" /\ self = "Bd09" /\ target = "Wgs84") =>
          LET g == bd_to_gcj(arg[1], arg[2]) IN ret = gcj_to_wgs(g[1], g[2])

\* C4: a call from Bd09 to Wgs84 on an in-region coordinate has returned
\* after more than one iteration of the inverse
C4_Witness ==
    /\ pc = "done"
    /\ self = "Bd09"
    /\ target = "Wgs84"
    /\ arg = <<Deg(39), Deg(116)>>
    /\ round > 1
    /\ broke

\* C5: gcj_to_wgs starts at most MAX_ROUND iterations and applies wgs_to_gcj
\* at most MAX_ROUND times; after the last one the loop can only be left;
\* what it returns is the estimate, converged or not
C5_Bounded ==
    /\ round <= MAX_ROUND
    /\ applied <= MAX_ROUND
    /\ arm \in {"gcj_to_wgs", "bd_to_wgs"} => applied = round
    /\ (pc = "loop" /\ round = MAX_ROUND) => (ENABLED LoopExit /\ ~ENABLED Iterate)
    /\ (pc = "done" /\ arm \in {"gcj_to_wgs", "bd_to_wgs"}) =>
          (ret = wgs /\ round >= 1 /\ (broke \/ round = MAX_ROUND))

\* C5: gcj_to_wgs has returned a finite estimate without having converged
C5_Witness ==
    /\ pc = "done"
    /\ arm = "gcj_to_wgs"
    /\ round = MAX_ROUND
    /\ ~broke
    /\ Finite(arg)
    /\ Finite(ret)

\* C6: once the match is done, the arm is the identity for an equal pair and
\* the pairwise function named after the pair otherwise; the unreachable arm
\* is never selected
C6_Total ==
    /\ arm # "unreachable"
    /\ pc # "call" =>
          arm = IF self = target THEN "identity"
                ELSE Short(self) \o "_to_" \o Short(target)
    /\ pc = "arm" =>
          arm \in {"identity", "wgs_to_gcj", "wgs_to_bd", "gcj_to_wgs",
                   "gcj_to_bd", "bd_to_wgs", "bd_to_gcj"}

\* C6: the match of the pair (Bd09, Gcj02) has selected bd_to_gcj
C6_Witness == pc = "arm" /\ self = "Bd09" /\ target = "Gcj02" /\ arm = "bd_to_gcj"

\* C7: an iteration applies wgs_to_gcj to the estimate and takes the residual
\* gcj - result; it leaves the loop exactly when both residuals are below
\* EPS, returning the estimate as it was, whose residual is then below EPS;
\* otherwise it adds the residual to the estimate and stays in the loop
C7_Iteration ==
    [][(pc = "loop" /\ round' = round + 1) =>
          LET cur == wgs_to_gcj(wgs[1], wgs[2])
              residual == <<FSub(gcj[1], cur[1]), FSub(gcj[2], cur[2])>>
          IN  /\ fwd'.ret = cur
              /\ broke' <=> Below(residual)
              /\ Below(residual) =>
                    /\ pc' = "done"
                    /\ wgs' = wgs
                    /\ ret' = wgs
                    /\ LET again == wgs_to_gcj(ret'[1], ret'[2])
                       IN  Below(<<FSub(gcj[1], again[1]), FSub(gcj[2], again[2])>>)
              /\ ~Below(residual) =>
                    /\ pc' = "loop"
                    /\ wgs' = <<FAdd(wgs[1], residual[1]), FAdd(wgs[2], residual[2])>>
                    /\ ret' = ret
      ]_vars

\* C7: the loop was left by the break, before its last iteration and after
\* iterations that moved the estimate
C7_Witness ==
    /\ pc = "done"
    /\ arm = "gcj_to_wgs"
    /\ broke
    /\ 1 < round
    /\ round < MAX_ROUND
    /\ Finite(ret)
    /\ ret # arg

\* C8 as stated: the regional path evaluates wgs_encrypt at
\* (x, y) = (lon - 105, lat - 35), takes the latitude delta from y_t and the
\* longitude delta from x_t
C8_LonFirst ==
    Computed =>
        /\ fwd.enc.x = fwd.lon.v - 105 * S
        /\ fwd.enc.y = fwd.lat.v - 35 * S
        /\ fwd.lat_d = Fin(MulDiv(fwd.enc.y_t, 1800, LatArc(fwd.magic.v)))
        /\ fwd.lon_d = Fin(MulDiv(fwd.enc.x_t, 1800, LonArc(fwd.magic.v, fwd.lat_rad.v)))

\* C8: the regional path evaluates wgs_encrypt at (x, y) = (lat - 35,
\* lon - 105), takes the latitude delta from x_t and the longitude delta
\* from y_t
C8_LatFirst ==
    Computed =>
        /\ fwd.enc.x = fwd.lat.v - 35 * S
        /\ fwd.enc.y = fwd.lon.v - 105 * S
        /\ fwd.lat_t = Fin(fwd.enc.x_t)
        /\ fwd.lon_t = Fin(fwd.enc.y_t)
        /\ fwd.lat_d = Fin(MulDiv(fwd.enc.x_t, 1800, LatArc(fwd.magic.v)))
        /\ fwd.lon_d = Fin(MulDiv(fwd.enc.y_t, 1800, LonArc(fwd.magic.v, fwd.lat_rad.v)))

\* C8: wgs_to_gcj has taken the regional path on (39, 116), where
\* lat - 35 = 4 and lon - 105 = 11
C8_Witness ==
    /\ pc = "done"
    /\ arm = "wgs_to_gcj"
    /\ Computed
    /\ fwd.lat = Deg(39)
    /\ fwd.lon = Deg(116)
    /\ fwd.enc.x = 4 * S
    /\ fwd.enc.y = 11 * S

\* y_t of wgs_encrypt at scale M, with the square root taken of |root|
YTerms(e, root) ==
    300 * M
    + RoundDiv(e.y, 10)
    + RoundDiv(2 * e.x, 10)
    + RoundDiv(MulDiv(e.y, e.y, 10 * S), 10)
    + RoundDiv(MulDiv(e.x, e.y, 10 * S), 10)
    + RoundDiv(RoundDiv(FSqrt(Abs(root)), 10), 10)
    + RoundDiv(2 * (e.r + e.y_p + e.y_q), 3)

\* x_t of wgs_encrypt at scale M, with the square root taken of |root|
XTerms(e, root) ==
    -100 * M
    + RoundDiv(2 * e.y, 10)
    + RoundDiv(3 * e.x, 10)
    + RoundDiv(MulDiv(e.x, e.x, 10 * S), 5)
    + RoundDiv(MulDiv(e.x, e.y, 10 * S), 10)
    + RoundDiv(2 * RoundDiv(FSqrt(Abs(root)), 10), 10)
    + RoundDiv(2 * (e.r + e.x_p + e.x_q), 3)

\* C9 as stated: y_t = 300 + y + 2x + 0.1y^2 + 0.1xy + 0.1 sqrt|x|
\* + (2/3)(r + y_p + y_q), the square root being that of |x|
C9_RootOfX == Computed => fwd.enc.y_t = YTerms(fwd.enc, fwd.enc.x)

\* C9: y_t = 300 + y + 2x + 0.1y^2 + 0.1xy + 0.1 sqrt|y| + (2/3)(r + y_p + y_q),
\* the square root being that of |y|, as is the one of x_t
C9_RootOfY ==
    Computed =>
        /\ fwd.enc.y_t = YTerms(fwd.enc, fwd.enc.y)
        /\ fwd.enc.x_t = XTerms(fwd.enc, fwd.enc.y)

\* C9: wgs_encrypt has run on inputs whose roots differ by more than the
\* rounding of the term
C9_Witness ==
    /\ pc = "done"
    /\ arm = "wgs_to_gcj"
    /\ Computed
    /\ YTerms(fwd.enc, fwd.enc.x) # YTerms(fwd.enc, fwd.enc.y)

\* C10 as stated: gcj_to_wgs of any coordinate beyond a bound of the region
\* returns it unchanged after exactly one wgs_to_gcj, leaving the loop in the
\* first iteration
C10_AnyOutside ==
    (pc = "done" /\ self = "Gcj02" /\ target = "Wgs84" /\ Outside(arg)) =>
        /\ ret = arg
        /\ applied = 1
        /\ round = 1
        /\ broke

\* C10: gcj_to_wgs of a coordinate with both components finite and beyond a
\* bound of the region returns it unchanged after exactly one wgs_to_gcj,
\* leaving the loop in the first iteration
C10_FiniteOutside ==
    (pc = "done" /\ self = "Gcj02" /\ target = "Wgs84" /\ Finite(arg) /\ Outside(arg)) =>
        /\ ret = arg
        /\ applied = 1
        /\ round = 1
        /\ broke
        /\ fwd.outside

\* C10: gcj_to_wgs has returned on the finite coordinate (60, 100), beyond
\* the northern bound
C10_Witness ==
    /\ pc = "done"
    /\ self = "Gcj02"
    /\ target = "Wgs84"
    /\ arg = <<Deg(60), Deg(100)>>
    /\ ret = arg
    /\ applied = 1

============================================================================
